---------------------------- MODULE Spec2Model ----------------------------
(***************************************************************************)
(* SQLiteStore (src/src/sqlite.ts): the boardgame.io storage adapter over  *)
(* one SQLite file with two tables, matches and logs.                      *)
(*                                                                         *)
(* The backing file is shared state: matches, logs and the AUTOINCREMENT   *)
(* counter of logs.  A store instance is one process holding one handle    *)
(* (this.db).  Every handler runs synchronously, so an instance never      *)
(* interleaves its own handlers; instances of different processes on the   *)
(* same file interleave between SQL statements.  setState is therefore     *)
(* modelled statement by statement: the guard's SELECT, then the           *)
(* transaction's UPDATE, its INSERTs and its COMMIT.                       *)
(***************************************************************************)
EXTENDS Integers, Sequences, FiniteSets, TLC

(***************************************************************************)
(* Bounds of the model.                                                    *)
(***************************************************************************)
MaxStateID == 2
MaxClock == 2
MaxLogId == 3
MaxHandles == 2

(***************************************************************************)
(* Input domains.                                                          *)
(***************************************************************************)
Procs == {"p1", "p2"}
MatchIds == {"m1", "m2"}

\* JavaScript's undefined, for a property that holds a string.
Undefined == "undefined"
\* SQL NULL, for a column that holds a text.
NULL == [null |-> TRUE]
\* No row of the matches table has this id.
NoRow == [row |-> FALSE]

(***************************************************************************)
(* Values.  A State is [_stateID, G]: the sequence number and the opaque   *)
(* rest.  A Server.MatchData is [gameName, gameover], both optional.  A    *)
(* LogEntry is [action].                                                   *)
(***************************************************************************)
\* obj.k in JavaScript: undefined when the object has no such property.
Get(obj, k) == IF k \in DOMAIN obj THEN obj[k] ELSE Undefined


(***************************************************************************)
(* JSON.stringify and JSON.parse.  A text is [json |-> fields]: the        *)
(* properties whose value is undefined are left out, and a number is       *)
(* written as its digits.                                                  *)
(***************************************************************************)
NumberKeys == {"_stateID"}

DefinedKeys(v) == {k \in DOMAIN v : k \in NumberKeys \/ v[k] # Undefined}

JSONstringify(v) ==
  [json |-> [k \in DefinedKeys(v) |->
               IF k \in NumberKeys THEN ToString(v[k]) ELSE v[k]]]

ParseNumber(s) == CHOOSE n \in 0..(MaxStateID + 1) : ToString(n) = s

JSONparse(t) ==
  [k \in DOMAIN t.json |->
     IF k \in NumberKeys THEN ParseNumber(t.json[k]) ELSE t.json[k]]

(***************************************************************************)
(* State.                                                                  *)
(***************************************************************************)
VARIABLES
  matches,   \* the matches table: id -> row, or NoRow
  logs,      \* the logs table: a set of rows [id, matchId, logEntry]
  logSeq,    \* sqlite_sequence of logs (AUTOINCREMENT): the largest id given
  txn,       \* the open write transaction and its uncommitted tables
  db,        \* per store instance: this.db is not null
  handles,   \* per store instance: the handles it opened and has not closed
  call,      \* per store instance: the setState call it is in the middle of
  clock,     \* Date.now()
  ret,       \* the last call that returned or threw, and its outcome
  appended,  \* history: per match, the log entries accepted since it was created
  created    \* history: per match, the initialState its createMatch was given

vars == <<matches, logs, logSeq, txn, db, handles, call, clock, ret, appended, created>>

store == <<matches, logs, logSeq>>

NoTxn == [owner |-> "none"]
NoCall == [op |-> "none"]
NoValue == [value |-> FALSE]

\* A row written to the file by another program: the schema (lines 63-65)
\* lets state, initialState and metadata be NULL.
LegacyRow ==
  [gameName |-> "g1", state |-> NULL, initialState |-> NULL, metadata |-> NULL,
   createdAt |-> 0, updatedAt |-> 0]

\* The store instances before connect(), on a file holding these matches.
InitOn(rows) ==
  /\ matches = rows
  /\ logs = {}
  /\ logSeq = 0
  /\ txn = NoTxn
  /\ db = [p \in Procs |-> FALSE]
  /\ handles = [p \in Procs |-> 0]
  /\ call = [p \in Procs |-> NoCall]
  /\ clock = 0
  /\ ret = [op |-> "none"]
  /\ appended = [id \in MatchIds |-> <<>>]
  /\ created = [id \in MatchIds |-> NoValue]

\* A new file.
InitNew == InitOn([id \in MatchIds |-> NoRow])

\* The file is new, or holds a legacy row.
Init ==
  \/ InitNew
  \/ InitOn([id \in MatchIds |-> IF id = "m1" THEN LegacyRow ELSE NoRow])

\* Mutant: a handler starts while a setState of the instance is suspended
\* between two of its statements.
IdleAlways(p) == TRUE

Idle(p) == call[p] = NoCall

\* A call's outcome.
Return(op, p, id, args, result, value) ==
  [op |-> op, p |-> p, id |-> id, args |-> args, result |-> result, value |-> value]

NotConnected == "Database not connected. Call connect() first."

\* Date.now() advances.
Tick ==
  /\ clock < MaxClock
  /\ clock' = clock + 1
  /\ UNCHANGED <<matches, logs, logSeq, txn, db, handles, call, ret, appended, created>>

(***************************************************************************)
(* connect(): opens a new handle and keeps it in this.db; CREATE TABLE IF  *)
(* NOT EXISTS leaves existing tables as they are.                          *)
(***************************************************************************)
\* Mutant: the tables are dropped and created anew.
ConnectAndReset(p) ==
  /\ Idle(p)
  /\ handles[p] < MaxHandles
  /\ db' = [db EXCEPT ![p] = TRUE]
  /\ handles' = [handles EXCEPT ![p] = @ + 1]
  /\ matches' = [id \in MatchIds |-> NoRow]
  /\ logs' = {}
  /\ logSeq' = 0
  /\ ret' = Return("connect", p, "", NoValue, "ok", NoValue)
  /\ UNCHANGED <<txn, call, clock, appended, created>>

Connect(p) ==
  /\ Idle(p)
  /\ handles[p] < MaxHandles
  /\ db' = [db EXCEPT ![p] = TRUE]
  /\ handles' = [handles EXCEPT ![p] = @ + 1]
  /\ ret' = Return("connect", p, "", NoValue, "ok", NoValue)
  /\ UNCHANGED <<matches, logs, logSeq, txn, call, clock, appended, created>>

\* close(): closes this.db if there is one.
Close(p) ==
  /\ Idle(p)
  /\ IF db[p]
       THEN /\ db' = [db EXCEPT ![p] = FALSE]
            /\ handles' = [handles EXCEPT ![p] = @ - 1]
       ELSE UNCHANGED <<db, handles, appended, created>>
  /\ ret' = Return("close", p, "", NoValue, "ok", NoValue)
  /\ UNCHANGED <<matches, logs, logSeq, txn, call, clock, appended, created>>

(***************************************************************************)
(* createMatch(id, opts)                                                   *)
(***************************************************************************)
\* Mutant: the initialState column is left out of the INSERT.
NewRowWithoutInitialState(initialState, metadata, now) ==
  [gameName |-> IF Get(metadata, "gameName") = Undefined THEN "" ELSE Get(metadata, "gameName"),
   state |-> JSONstringify(initialState),
   initialState |-> NULL,
   metadata |-> JSONstringify(metadata),
   createdAt |-> now,
   updatedAt |-> now]

\* The row createMatch inserts.
NewRow(initialState, metadata, now) ==
  [gameName |-> IF Get(metadata, "gameName") = Undefined THEN "" ELSE Get(metadata, "gameName"),
   state |-> JSONstringify(initialState),
   initialState |-> JSONstringify(initialState),
   metadata |-> JSONstringify(metadata),
   createdAt |-> now,
   updatedAt |-> now]

\* Mutant: INSERT OR REPLACE INTO matches.
CreateMatchOrReplace(p, id, initialState, metadata) ==
  /\ Idle(p)
  /\ LET args == [initialState |-> initialState, metadata |-> metadata] IN
     IF ~db[p]
       THEN /\ ret' = Return("createMatch", p, id, args, NotConnected, NoValue)
            /\ UNCHANGED <<matches, logs, logSeq, txn, db, handles, call, clock, appended, created>>
       ELSE /\ txn = NoTxn
            /\ matches' = [matches EXCEPT ![id] = NewRow(initialState, metadata, clock)]
            /\ created' = [created EXCEPT ![id] = initialState]
            /\ ret' = Return("createMatch", p, id, args, "ok", NoValue)
            /\ UNCHANGED <<logs, logSeq, txn, db, handles, call, clock, appended>>

CreateMatch(p, id, initialState, metadata) ==
  /\ Idle(p)
  /\ LET args == [initialState |-> initialState, metadata |-> metadata] IN
     IF ~db[p]
       THEN /\ ret' = Return("createMatch", p, id, args, NotConnected, NoValue)
            /\ UNCHANGED <<matches, logs, logSeq, txn, db, handles, call, clock, appended, created>>
       ELSE /\ txn = NoTxn
            /\ IF matches[id] # NoRow
                 THEN /\ ret' = Return("createMatch", p, id, args, "SQLITE_CONSTRAINT_PRIMARYKEY", NoValue)
                      /\ UNCHANGED <<matches, created>>
                 ELSE /\ matches' = [matches EXCEPT ![id] = NewRow(initialState, metadata, clock)]
                      /\ created' = [created EXCEPT ![id] = initialState]
                      /\ ret' = Return("createMatch", p, id, args, "ok", NoValue)
            /\ UNCHANGED <<logs, logSeq, txn, db, handles, call, clock, appended>>

(***************************************************************************)
(* fetch(matchID, opts): opts enables state, metadata, initialState, log.  *)
(***************************************************************************)
FetchOpts == [state : BOOLEAN, metadata : BOOLEAN, initialState : BOOLEAN, log : BOOLEAN]

\* A column of the row: JSON.parse of its text, undefined when it is NULL.
NoObject == [undefined |-> TRUE]
Column(text) == IF text # NULL THEN JSONparse(text) ELSE NoObject

\* Mutant: ORDER BY id DESC.
RECURSIVE OrderByIdDesc(_)
OrderByIdDesc(rows) ==
  IF rows = {} THEN <<>>
  ELSE LET first == CHOOSE r \in rows : \A q \in rows : r.id >= q.id
       IN <<first>> \o OrderByIdDesc(rows \ {first})

\* The rows of logs as a sequence, ORDER BY id ASC.
RECURSIVE OrderById(_)
OrderById(rows) ==
  IF rows = {} THEN <<>>
  ELSE LET first == CHOOSE r \in rows : \A q \in rows : r.id <= q.id
       IN <<first>> \o OrderById(rows \ {first})

\* SELECT logEntry FROM logs WHERE matchId = ? ORDER BY id ASC, each parsed.
LogOf(table, matchID) ==
  LET rows == OrderById({r \in table : r.matchId = matchID})
  IN [i \in 1..Len(rows) |-> JSONparse(rows[i].logEntry)]

\* Mutant: every field is assigned, whatever opts enables.
FetchKeysAll(opts) == {"state", "metadata", "initialState", "log"}

\* The keys fetch assigns for a row that exists.
FetchKeys(opts) ==
  {k \in {"state", "metadata", "initialState", "log"} : opts[k]}

\* Mutant: the log query runs before the row is looked up.
FetchResultLogFirst(matchID, opts) ==
  LET match == matches[matchID] IN
  IF match = NoRow
    THEN [k \in {j \in {"log"} : opts[j]} |-> LogOf(logs, matchID)]
    ELSE [k \in FetchKeys(opts) |->
            IF k = "log" THEN LogOf(logs, matchID) ELSE Column(match[k])]

FetchResult(matchID, opts) ==
  LET match == matches[matchID] IN
  IF match = NoRow THEN [k \in {} |-> NoObject]
  ELSE [k \in FetchKeys(opts) |->
          IF k = "log" THEN LogOf(logs, matchID) ELSE Column(match[k])]

Fetch(p, matchID, opts) ==
  /\ Idle(p)
  /\ IF ~db[p]
       THEN ret' = Return("fetch", p, matchID, opts, NotConnected, NoValue)
       ELSE ret' = Return("fetch", p, matchID, opts, "ok", FetchResult(matchID, opts))
  /\ UNCHANGED <<matches, logs, logSeq, txn, db, handles, call, clock, appended, created>>

(***************************************************************************)
(* setState(id, state, deltalog?)                                          *)
(***************************************************************************)
NoDeltalog == [present |-> FALSE, entries |-> <<>>]
Deltalog(entries) == [present |-> TRUE, entries |-> entries]

\* Mutant: the guard compares with > instead of >=.
IsStaleStrict(existing, state) ==
  /\ existing # NoRow
  /\ existing.state # NULL
  /\ JSONparse(existing.state)._stateID > state._stateID

\* Mutant: no guard.
IsStaleNever(existing, state) == FALSE

\* Lines 161-167: the stored state is at least as new as the given one.
IsStale(existing, state) ==
  /\ existing # NoRow
  /\ existing.state # NULL
  /\ JSONparse(existing.state)._stateID >= state._stateID

\* Mutant: the UPDATE also sets initialState.
UpdateStateAndInitialState(table, id, state, now) ==
  [table EXCEPT ![id] =
     IF @ = NoRow THEN @
     ELSE [@ EXCEPT !.state = JSONstringify(state),
                    !.initialState = JSONstringify(state),
                    !.updatedAt = now]]

\* Mutant: UPDATE matches SET state = ? WHERE id = ?
UpdateStateKeepingTime(table, id, state, now) ==
  [table EXCEPT ![id] =
     IF @ = NoRow THEN @
     ELSE [@ EXCEPT !.state = JSONstringify(state)]]

\* UPDATE matches SET state = ?, updatedAt = ? WHERE id = ?
UpdateState(table, id, state, now) ==
  [table EXCEPT ![id] =
     IF @ = NoRow THEN @
     ELSE [@ EXCEPT !.state = JSONstringify(state), !.updatedAt = now]]

\* Mutant: the new row gets an id below every id given so far.
InsertLogPrepended(table, seq, id, entry) ==
  table \cup {[id |-> 0 - (seq + 1), matchId |-> id, logEntry |-> JSONstringify(entry)]}

\* INSERT INTO logs (matchId, logEntry) VALUES (?, ?)
InsertLog(table, seq, id, entry) ==
  table \cup {[id |-> seq + 1, matchId |-> id, logEntry |-> JSONstringify(entry)]}

\* Line 180: the entries the transaction inserts.
EntriesOf(deltalog) ==
  IF deltalog.present /\ Len(deltalog.entries) > 0 THEN deltalog.entries ELSE <<>>

Entries(p) == EntriesOf(call[p].deltalog)

\* Lines 184-186: the loop's INSERTs, in the order of the batch.
RECURSIVE InsertAll(_, _, _, _)
InsertAll(table, seq, id, entries) ==
  IF entries = <<>> THEN [logs |-> table, logSeq |-> seq]
  ELSE InsertAll(InsertLog(table, seq, id, Head(entries)), seq + 1, id, Tail(entries))

(***************************************************************************)
(* setState as one store instance runs it: the handler has no await, so    *)
(* nothing of the same instance runs between its statements.               *)
(***************************************************************************)
SetState(p, id, state, deltalog) ==
  /\ Idle(p)
  /\ LET args == [state |-> state, deltalog |-> deltalog]
         updated == UpdateState(matches, id, state, clock)
         inserted == InsertAll(logs, logSeq, id, EntriesOf(deltalog))
     IN
     IF ~db[p]
       THEN /\ ret' = Return("setState", p, id, args, NotConnected, NoValue)
            /\ UNCHANGED <<matches, logs, logSeq, appended, created>>
       ELSE IF IsStale(matches[id], state)
         THEN /\ ret' = Return("setState", p, id, args, "ok", NoValue)
              /\ UNCHANGED <<matches, logs, logSeq, appended, created>>
         ELSE /\ txn = NoTxn
              /\ IF EntriesOf(deltalog) # <<>> /\ updated[id] = NoRow
                   THEN /\ ret' = Return("setState", p, id, args, "SQLITE_CONSTRAINT_FOREIGNKEY", NoValue)
                        /\ UNCHANGED <<matches, logs, logSeq, appended, created>>
                   ELSE /\ inserted.logSeq <= MaxLogId
                        /\ matches' = updated
                        /\ logs' = inserted.logs
                        /\ logSeq' = inserted.logSeq
                        /\ appended' = [appended EXCEPT ![id] = @ \o EntriesOf(deltalog)]
                        /\ ret' = Return("setState", p, id, args, "ok", NoValue)
                        /\ UNCHANGED created
  /\ UNCHANGED <<txn, db, handles, call, clock>>

(***************************************************************************)
(* setState statement by statement, as store instances of several          *)
(* processes on one file interleave, and as a failure interrupts it.       *)
(***************************************************************************)
\* Lines 157-169: the guard's SELECT, the early return, Date.now().
SetStateCheck(p, id, state, deltalog) ==
  /\ Idle(p)
  /\ LET args == [state |-> state, deltalog |-> deltalog] IN
     IF ~db[p]
       THEN /\ ret' = Return("setState", p, id, args, NotConnected, NoValue)
            /\ UNCHANGED call
       ELSE IF IsStale(matches[id], state)
         THEN /\ ret' = Return("setState", p, id, args, "ok", NoValue)
              /\ UNCHANGED call
         ELSE /\ logSeq + Len(deltalog.entries) <= MaxLogId
              /\ call' = [call EXCEPT ![p] =
                   [op |-> "setState", id |-> id, state |-> state,
                    deltalog |-> deltalog, now |-> clock, i |-> 0]]
              /\ UNCHANGED ret
  /\ UNCHANGED <<matches, logs, logSeq, txn, db, handles, clock, appended, created>>

InCall(p) == call[p] # NoCall

CallArgs(p) == [state |-> call[p].state, deltalog |-> call[p].deltalog]

\* Lines 172-177: the transaction begins and takes the write lock at its
\* first statement, the UPDATE.
TxUpdate(p) ==
  /\ InCall(p)
  /\ call[p].i = 0
  /\ txn = NoTxn
  /\ txn' = [owner |-> p,
             matches |-> UpdateState(matches, call[p].id, call[p].state, call[p].now),
             logs |-> logs,
             logSeq |-> logSeq]
  /\ call' = [call EXCEPT ![p].i = 1]
  /\ UNCHANGED <<matches, logs, logSeq, db, handles, clock, ret, appended, created>>

\* Mutant: the statements run outside a transaction, so those that ran
\* before the error stay written.
RollbackNothing(p, error) ==
  /\ txn' = IF txn.owner = p THEN NoTxn ELSE txn
  /\ call' = [call EXCEPT ![p] = NoCall]
  /\ ret' = Return("setState", p, call[p].id, CallArgs(p), error, [statement |-> call[p].i])
  /\ IF txn.owner = p
       THEN matches' = txn.matches /\ logs' = txn.logs /\ logSeq' = txn.logSeq
       ELSE UNCHANGED <<matches, logs, logSeq>>
  /\ UNCHANGED <<db, handles, clock, appended, created>>

\* better-sqlite3's transaction(): ROLLBACK, and the error is thrown.
Rollback(p, error) ==
  /\ txn' = IF txn.owner = p THEN NoTxn ELSE txn
  /\ call' = [call EXCEPT ![p] = NoCall]
  /\ ret' = Return("setState", p, call[p].id, CallArgs(p), error, [statement |-> call[p].i])
  /\ UNCHANGED <<matches, logs, logSeq, db, handles, clock, appended, created>>

\* Mutant: foreign_keys is off, so the INSERT does not look for the match.
TxInsertUnchecked(p) ==
  /\ InCall(p)
  /\ txn.owner = p
  /\ call[p].i \in 1..Len(Entries(p))
  /\ txn.logSeq < MaxLogId
  /\ txn' = [txn EXCEPT
       !.logs = InsertLog(@, txn.logSeq, call[p].id, Entries(p)[call[p].i]),
       !.logSeq = @ + 1]
  /\ call' = [call EXCEPT ![p].i = @ + 1]
  /\ UNCHANGED <<matches, logs, logSeq, db, handles, clock, ret, appended, created>>

\* Lines 184-186: one INSERT of the loop; the foreign key is checked by it.
TxInsert(p) ==
  /\ InCall(p)
  /\ txn.owner = p
  /\ call[p].i \in 1..Len(Entries(p))
  /\ IF txn.matches[call[p].id] = NoRow
       THEN Rollback(p, "SQLITE_CONSTRAINT_FOREIGNKEY")
       ELSE /\ txn.logSeq < MaxLogId
            /\ txn' = [txn EXCEPT
                 !.logs = InsertLog(@, txn.logSeq, call[p].id, Entries(p)[call[p].i]),
                 !.logSeq = @ + 1]
            /\ call' = [call EXCEPT ![p].i = @ + 1]
            /\ UNCHANGED <<matches, logs, logSeq, db, handles, clock, ret, appended, created>>

\* Line 190: the transaction function returns and COMMIT publishes its writes.
TxCommit(p) ==
  /\ InCall(p)
  /\ txn.owner = p
  /\ call[p].i = Len(Entries(p)) + 1
  /\ matches' = txn.matches
  /\ logs' = txn.logs
  /\ logSeq' = txn.logSeq
  /\ txn' = NoTxn
  /\ call' = [call EXCEPT ![p] = NoCall]
  /\ appended' = [appended EXCEPT ![call[p].id] = @ \o Entries(p)]
  /\ ret' = Return("setState", p, call[p].id, CallArgs(p), "ok", NoValue)
  /\ UNCHANGED <<db, handles, clock, created>>

\* A statement of the transaction fails (SQLITE_BUSY, SQLITE_FULL, an I/O
\* error): the transaction is rolled back and setState throws.
TxFail(p) ==
  /\ InCall(p)
  /\ Rollback(p, "SQLITE_ERROR")

\* The process dies in the middle of setState: its handle is gone and the
\* write-ahead log drops the writes it had not committed.
Crash(p) ==
  /\ InCall(p)
  /\ txn' = IF txn.owner = p THEN NoTxn ELSE txn
  /\ call' = [call EXCEPT ![p] = NoCall]
  /\ db' = [db EXCEPT ![p] = FALSE]
  /\ handles' = [handles EXCEPT ![p] = 0]
  /\ ret' = Return("setState", p, call[p].id, CallArgs(p), "crashed", [statement |-> call[p].i])
  /\ UNCHANGED <<matches, logs, logSeq, clock, appended, created>>

(***************************************************************************)
(* setMetadata(id, metadata)                                               *)
(***************************************************************************)
\* Mutant: INSERT ... ON CONFLICT(id) DO UPDATE, which makes a row for an
\* id that has none.
UpdateMetadataUpsert(table, id, metadata, now) ==
  [table EXCEPT ![id] =
     IF @ = NoRow
       THEN [gameName |-> "", state |-> NULL, initialState |-> NULL,
             metadata |-> JSONstringify(metadata), createdAt |-> now, updatedAt |-> now]
       ELSE [@ EXCEPT !.metadata = JSONstringify(metadata), !.updatedAt = now]]

\* Mutant: UPDATE ... WHERE id = ? AND metadata IS NULL.
UpdateMetadataIfUnset(table, id, metadata, now) ==
  [table EXCEPT ![id] =
     IF @ = NoRow \/ @.metadata # NULL THEN @
     ELSE [@ EXCEPT !.metadata = JSONstringify(metadata), !.updatedAt = now]]

\* Mutant: the UPDATE also sets initialState to NULL.
UpdateMetadataAndInitialState(table, id, metadata, now) ==
  [table EXCEPT ![id] =
     IF @ = NoRow THEN @
     ELSE [@ EXCEPT !.metadata = JSONstringify(metadata),
                    !.initialState = NULL,
                    !.updatedAt = now]]

\* Mutant: UPDATE matches SET metadata = ?, gameName = ?, updatedAt = ? ...
UpdateMetadataAndGameName(table, id, metadata, now) ==
  [table EXCEPT ![id] =
     IF @ = NoRow THEN @
     ELSE [@ EXCEPT !.metadata = JSONstringify(metadata),
                    !.gameName = IF Get(metadata, "gameName") = Undefined
                                   THEN "" ELSE Get(metadata, "gameName"),
                    !.updatedAt = now]]

\* UPDATE matches SET metadata = ?, updatedAt = ? WHERE id = ?
UpdateMetadata(table, id, metadata, now) ==
  [table EXCEPT ![id] =
     IF @ = NoRow THEN @
     ELSE [@ EXCEPT !.metadata = JSONstringify(metadata), !.updatedAt = now]]

SetMetadata(p, id, metadata) ==
  /\ Idle(p)
  /\ IF ~db[p]
       THEN /\ ret' = Return("setMetadata", p, id, metadata, NotConnected, NoValue)
            /\ UNCHANGED matches
       ELSE /\ txn = NoTxn
            /\ matches' = UpdateMetadata(matches, id, metadata, clock)
            /\ ret' = Return("setMetadata", p, id, metadata, "ok", NoValue)
  /\ UNCHANGED <<logs, logSeq, txn, db, handles, call, clock, appended, created>>

(***************************************************************************)
(* wipe(id): DELETE FROM matches WHERE id = ?, with ON DELETE CASCADE.     *)
(***************************************************************************)
\* Mutant: the foreign key has no ON DELETE CASCADE.
CascadeNothing(table, id) == table

\* Mutant: the delete empties the logs table.
CascadeAll(table, id) == {}

Cascade(table, id) == {r \in table : r.matchId # id}

\* Mutant: wipe without the check of this.db.
WipeUnguarded(p, id) ==
  /\ Idle(p)
  /\ IF ~db[p]
       THEN /\ ret' = Return("wipe", p, id, NoValue, "TypeError", NoValue)
            /\ UNCHANGED <<matches, logs, appended, created>>
       ELSE /\ txn = NoTxn
            /\ matches' = [matches EXCEPT ![id] = NoRow]
            /\ logs' = IF matches[id] # NoRow THEN Cascade(logs, id) ELSE logs
            /\ appended' = [appended EXCEPT ![id] = <<>>]
            /\ created' = [created EXCEPT ![id] = NoValue]
            /\ ret' = Return("wipe", p, id, NoValue, "ok", NoValue)
  /\ UNCHANGED <<logSeq, txn, db, handles, call, clock>>

Wipe(p, id) ==
  /\ Idle(p)
  /\ IF ~db[p]
       THEN /\ ret' = Return("wipe", p, id, NoValue, NotConnected, NoValue)
            /\ UNCHANGED <<matches, logs, appended, created>>
       ELSE /\ txn = NoTxn
            /\ matches' = [matches EXCEPT ![id] = NoRow]
            /\ logs' = IF matches[id] # NoRow THEN Cascade(logs, id) ELSE logs
            /\ appended' = [appended EXCEPT ![id] = <<>>]
            /\ created' = [created EXCEPT ![id] = NoValue]
            /\ ret' = Return("wipe", p, id, NoValue, "ok", NoValue)
  /\ UNCHANGED <<logSeq, txn, db, handles, call, clock>>

(***************************************************************************)
(* listMatches(opts?): opts holds the filters that are given, among        *)
(* gameName, isGameover, updatedBefore and updatedAfter.                   *)
(***************************************************************************)
\* Mutant: if (opts.where.updatedBefore) and if (opts.where.updatedAfter),
\* which take a timestamp of 0 for no filter.
SelectedTruthyTimes(row, opts) ==
  /\ row # NoRow
  /\ ("gameName" \in DOMAIN opts /\ opts.gameName # "") => row.gameName = opts.gameName
  /\ ("updatedBefore" \in DOMAIN opts /\ opts.updatedBefore # 0)
       => row.updatedAt < opts.updatedBefore
  /\ ("updatedAfter" \in DOMAIN opts /\ opts.updatedAfter # 0)
       => row.updatedAt > opts.updatedAfter

\* Lines 225-241: the WHERE clause.
Selected(row, opts) ==
  /\ row # NoRow
  /\ ("gameName" \in DOMAIN opts /\ opts.gameName # "") => row.gameName = opts.gameName
  /\ "updatedBefore" \in DOMAIN opts => row.updatedAt < opts.updatedBefore
  /\ "updatedAfter" \in DOMAIN opts => row.updatedAt > opts.updatedAfter

\* Line 243: the orders ORDER BY updatedAt DESC allows for a set of ids.
Ordered(ids) ==
  {rows \in [1..Cardinality(ids) -> ids] :
     /\ \A i, j \in DOMAIN rows : i # j => rows[i] # rows[j]
     /\ \A i, j \in DOMAIN rows :
          i < j => matches[rows[i]].updatedAt >= matches[rows[j]].updatedAt}

\* Mutant: hasGameover = Boolean(metadata.gameover).
KeepGameoverTruthy(id, isGameover) ==
  IF matches[id].metadata = NULL THEN FALSE
  ELSE LET metadata == JSONparse(matches[id].metadata)
           hasGameover == Get(metadata, "gameover") \notin {Undefined, ""}
       IN IF isGameover THEN hasGameover ELSE ~hasGameover

\* Lines 251-256: the in-memory filter on the metadata's gameover.
KeepGameover(id, isGameover) ==
  IF matches[id].metadata = NULL THEN FALSE
  ELSE LET metadata == JSONparse(matches[id].metadata)
           hasGameover == Get(metadata, "gameover") # Undefined
       IN IF isGameover THEN hasGameover ELSE ~hasGameover

\* Mutant: the kept rows are collected in reverse.
RECURSIVE FilterReversed(_, _)
FilterReversed(rows, isGameover) ==
  IF rows = <<>> THEN <<>>
  ELSE FilterReversed(Tail(rows), isGameover)
         \o (IF KeepGameover(Head(rows), isGameover) THEN <<Head(rows)>> ELSE <<>>)

RECURSIVE Filter(_, _)
Filter(rows, isGameover) ==
  IF rows = <<>> THEN <<>>
  ELSE (IF KeepGameover(Head(rows), isGameover) THEN <<Head(rows)>> ELSE <<>>)
         \o Filter(Tail(rows), isGameover)

ListResult(rows, opts) ==
  IF "isGameover" \in DOMAIN opts THEN Filter(rows, opts.isGameover) ELSE rows

ListMatches(p, opts) ==
  /\ Idle(p)
  /\ IF ~db[p]
       THEN ret' = Return("listMatches", p, "", opts, NotConnected, NoValue)
       ELSE \E rows \in Ordered({id \in MatchIds : Selected(matches[id], opts)}) :
              ret' = Return("listMatches", p, "", opts, "ok", ListResult(rows, opts))
  /\ UNCHANGED <<matches, logs, logSeq, txn, db, handles, call, clock, appended, created>>

(***************************************************************************)
(* What the callers ask for.                                               *)
(***************************************************************************)
CreateStates == [_stateID : {0, 1}, G : {"a"}]
CreateMetadatas == {[gameName |-> "g1", gameover |-> Undefined],
                    [gameName |-> Undefined, gameover |-> "won"]}
SetStates == [_stateID : 0..MaxStateID, G : {"b"}]
Deltalogs == {NoDeltalog, Deltalog(<<>>),
              Deltalog(<<[action |-> "e1"]>>),
              Deltalog(<<[action |-> "e2"], [action |-> "e1"]>>)}
ListOpts == {<<>>, [isGameover |-> TRUE]}
FirstState == [_stateID |-> 0, G |-> "a"]
FirstMetadata == [gameName |-> "g1", gameover |-> Undefined]
Batches == {Deltalog(<<[action |-> "e1"]>>),
            Deltalog(<<[action |-> "e2"], [action |-> "e1"]>>)}
LogFetchOpts == {opts \in FetchOpts : opts.log /\ ~opts.metadata /\ ~opts.initialState}

LaterStates == {s \in SetStates : s._stateID > FirstState._stateID}
SingleEntries == {Deltalog(<<[action |-> "e1"]>>), Deltalog(<<[action |-> "e2"]>>)}
StateOnly == [state |-> TRUE, metadata |-> FALSE, initialState |-> FALSE, log |-> FALSE]
MetadataOnly == [state |-> FALSE, metadata |-> TRUE, initialState |-> FALSE, log |-> FALSE]
LabelMetadatas == CreateMetadatas \cup {[gameName |-> "g2", gameover |-> Undefined]}
WonMetadata == [gameName |-> "g1", gameover |-> "won"]
OneEntry == {Deltalog(<<[action |-> "e1"]>>)}
InitialStateFetchOpts ==
  {opts \in FetchOpts : opts.initialState /\ ~opts.state /\ ~opts.metadata}

\* The metadata of the listed matches; a gameover of '' is present and falsy.
ListMetadatas == CreateMetadatas \cup {[gameName |-> "g1", gameover |-> ""]}
\* The filters of listMatches that are given: the time filters alone in
\* every combination, and gameName and isGameover in every combination,
\* alone or with an interval of time.
Merge(a, b) == [k \in DOMAIN a \cup DOMAIN b |-> IF k \in DOMAIN a THEN a[k] ELSE b[k]]
TimeFilters ==
  {[k \in given |-> f[k]] :
     f \in [updatedBefore : {0, 1, 2}, updatedAfter : {0, 1}],
     given \in SUBSET {"updatedBefore", "updatedAfter"}}
KindFilters ==
  {[k \in given |-> f[k]] :
     f \in [gameName : {"", "g1"}, isGameover : BOOLEAN],
     given \in (SUBSET {"gameName", "isGameover"}) \ {{}}}
Interval == [updatedBefore |-> 2, updatedAfter |-> 0]
ListFilters == TimeFilters \cup KindFilters \cup {Merge(o, Interval) : o \in KindFilters}
GameoverFilters == {o \in ListFilters : "isGameover" \in DOMAIN o}

(***************************************************************************)
(* Spec: one store instance and one match.  Its caller connects, then      *)
(* calls the six data operations in any order.                             *)
(***************************************************************************)
Next ==
  \/ Tick
  \/ \E p \in {"p1"} : ~db[p] /\ Connect(p)
  \/ \E p \in {"p1"}, id \in {"m1"}, s \in CreateStates, md \in CreateMetadatas :
       CreateMatch(p, id, s, md)
  \/ \E p \in {"p1"}, id \in {"m1"}, opts \in FetchOpts : Fetch(p, id, opts)
  \/ \E p \in {"p1"}, id \in {"m1"}, s \in SetStates, d \in Deltalogs :
       SetState(p, id, s, d)
  \/ \E p \in {"p1"}, id \in {"m1"}, md \in CreateMetadatas : SetMetadata(p, id, md)
  \/ \E p \in {"p1"}, id \in {"m1"} : Wipe(p, id)
  \/ \E p \in {"p1"}, opts \in ListOpts : ListMatches(p, opts)

Spec == Init /\ [][Next]_vars

(***************************************************************************)
(* SpecTwo: one store instance and two matches, whose calls interleave.    *)
(***************************************************************************)
NextTwo ==
  \/ \E p \in {"p1"} : ~db[p] /\ Connect(p)
  \/ \E p \in {"p1"}, id \in MatchIds : CreateMatch(p, id, FirstState, FirstMetadata)
  \/ \E p \in {"p1"}, id \in MatchIds, opts \in LogFetchOpts : Fetch(p, id, opts)
  \/ \E p \in {"p1"}, id \in MatchIds, s \in SetStates, d \in Batches :
       SetState(p, id, s, d)
  \/ \E p \in {"p1"}, id \in MatchIds : Wipe(p, id)
  \/ \E p \in {"p1"} : ListMatches(p, <<>>)

SpecTwo == InitNew /\ [][NextTwo]_vars

(***************************************************************************)
(* SpecFail: one store instance whose setState may fail at any statement,  *)
(* or die there.                                                           *)
(***************************************************************************)
NextFail ==
  \/ Tick
  \/ \E p \in {"p1"} : ~db[p] /\ Connect(p)
  \/ \E p \in {"p1"} : CreateMatch(p, "m1", FirstState, FirstMetadata)
  \/ \E p \in {"p1"}, s \in SetStates, d \in Deltalogs : SetStateCheck(p, "m1", s, d)
  \/ \E p \in {"p1"} : TxUpdate(p)
  \/ \E p \in {"p1"} : TxInsert(p)
  \/ \E p \in {"p1"} : TxCommit(p)
  \/ \E p \in {"p1"} : TxFail(p)
  \/ \E p \in {"p1"} : Crash(p)
  \/ \E p \in {"p1"} : Wipe(p, "m1")

SpecFail == InitNew /\ [][NextFail]_vars

(***************************************************************************)
(* SpecConc: two store instances, in two processes, on the same file.      *)
(***************************************************************************)
NextConc ==
  \/ \E p \in Procs : ~db[p] /\ Connect(p)
  \/ \E p \in Procs : CreateMatch(p, "m1", FirstState, FirstMetadata)
  \/ \E p \in Procs, s \in SetStates, d \in Batches \cup {NoDeltalog} :
       SetStateCheck(p, "m1", s, d)
  \/ \E p \in Procs : TxUpdate(p)
  \/ \E p \in Procs : TxInsert(p)
  \/ \E p \in Procs : TxCommit(p)

SpecConc == InitNew /\ [][NextConc]_vars

(***************************************************************************)
(* SpecMeta: one store instance and two matches, which are created, wiped  *)
(* and created again with another initial state; the caller may connect    *)
(* again at any time.                                                      *)
(***************************************************************************)
NextMeta ==
  \/ \E p \in {"p1"} : Connect(p)
  \/ \E p \in {"p1"}, id \in MatchIds, s \in CreateStates :
       CreateMatch(p, id, s, FirstMetadata)
  \/ \E p \in {"p1"}, id \in MatchIds, opts \in InitialStateFetchOpts :
       Fetch(p, id, opts)
  \/ \E p \in {"p1"}, id \in MatchIds, s \in SetStates, d \in OneEntry :
       SetState(p, id, s, d)
  \/ \E p \in {"p1"}, id \in MatchIds, md \in CreateMetadatas : SetMetadata(p, id, md)
  \/ \E p \in {"p1"}, id \in MatchIds : Wipe(p, id)
  \/ \E p \in {"p1"} : ListMatches(p, <<>>)

SpecMeta == InitNew /\ [][NextMeta]_vars

(***************************************************************************)
(* SpecList: one store instance lists two matches under the filters.       *)
(***************************************************************************)
NextList ==
  \/ Tick
  \/ \E p \in {"p1"} : ~db[p] /\ Connect(p)
  \/ \E p \in {"p1"}, id \in MatchIds, md \in ListMetadatas :
       CreateMatch(p, id, FirstState, md)
  \/ \E p \in {"p1"}, id \in MatchIds, md \in ListMetadatas : SetMetadata(p, id, md)
  \/ \E p \in {"p1"}, opts \in ListFilters : ListMatches(p, opts)

SpecList == InitNew /\ [][NextList]_vars

(***************************************************************************)
(* SpecLegacy: the same on a file that holds a row whose metadata is NULL. *)
(***************************************************************************)
NextLegacy ==
  \/ Tick
  \/ \E p \in {"p1"} : ~db[p] /\ Connect(p)
  \/ \E p \in {"p1"}, md \in CreateMetadatas : CreateMatch(p, "m2", FirstState, md)
  \/ \E p \in {"p1"}, id \in MatchIds, md \in CreateMetadatas : SetMetadata(p, id, md)
  \/ \E p \in {"p1"}, opts \in GameoverFilters : ListMatches(p, opts)

SpecLegacy == InitOn([id \in MatchIds |-> IF id = "m1" THEN LegacyRow ELSE NoRow])
                /\ [][NextLegacy]_vars

(***************************************************************************)
(* SpecConn: two store instances, in two processes, on the same file;      *)
(* each connects and closes any number of times, and wipes as well as      *)
(* writes.                                                                 *)
(***************************************************************************)
NextConn ==
  \/ \E p \in Procs : Connect(p)
  \/ \E p \in Procs : Close(p)
  \/ \E p \in Procs : CreateMatch(p, "m1", FirstState, FirstMetadata)
  \/ \E p \in Procs, s \in LaterStates, d \in OneEntry \cup {NoDeltalog, Deltalog(<<>>)} :
       SetStateCheck(p, "m1", s, d)
  \/ \E p \in Procs : TxUpdate(p)
  \/ \E p \in Procs : TxInsert(p)
  \/ \E p \in Procs : TxCommit(p)
  \/ \E p \in Procs : Wipe(p, "m1")

SpecConn == InitNew /\ [][NextConn]_vars

(***************************************************************************)
(* SpecOne: one store instance whose setState runs statement by statement  *)
(* while its caller invokes the other operations whenever the instance     *)
(* lets a handler start.                                                   *)
(***************************************************************************)
NextOne ==
  \/ Tick
  \/ \E p \in {"p1"} : ~db[p] /\ Connect(p)
  \/ \E p \in {"p1"} : CreateMatch(p, "m1", FirstState, FirstMetadata)
  \/ \E p \in {"p1"}, opts \in LogFetchOpts : Fetch(p, "m1", opts)
  \/ \E p \in {"p1"}, s \in SetStates, d \in Deltalogs : SetStateCheck(p, "m1", s, d)
  \/ \E p \in {"p1"} : TxUpdate(p)
  \/ \E p \in {"p1"} : TxInsert(p)
  \/ \E p \in {"p1"} : TxCommit(p)
  \/ \E p \in {"p1"}, md \in CreateMetadatas : SetMetadata(p, "m1", md)
  \/ \E p \in {"p1"} : Wipe(p, "m1")
  \/ \E p \in {"p1"} : ListMatches(p, <<>>)

SpecOne == InitNew /\ [][NextOne]_vars

(***************************************************************************)
(* SpecLog: one store instance and one match whose log gets entries that   *)
(* differ, between calls of every other operation; the caller may connect  *)
(* again at any time.                                                      *)
(***************************************************************************)
NextLog ==
  \/ \E p \in {"p1"} : Connect(p)
  \/ \E p \in {"p1"} : CreateMatch(p, "m1", FirstState, FirstMetadata)
  \/ \E p \in {"p1"}, opts \in LogFetchOpts : Fetch(p, "m1", opts)
  \/ \E p \in {"p1"}, s \in SetStates, d \in SingleEntries \cup {NoDeltalog} :
       SetState(p, "m1", s, d)
  \/ \E p \in {"p1"} : SetMetadata(p, "m1", WonMetadata)
  \/ \E p \in {"p1"} : Wipe(p, "m1")
  \/ \E p \in {"p1"} : ListMatches(p, <<>>)

SpecLog == InitNew /\ [][NextLog]_vars

(***************************************************************************)
(* SpecTime: one store instance writes two matches while the clock         *)
(* advances.                                                               *)
(***************************************************************************)
NextTime ==
  \/ Tick
  \/ \E p \in {"p1"} : ~db[p] /\ Connect(p)
  \/ \E p \in {"p1"}, id \in MatchIds : CreateMatch(p, id, FirstState, FirstMetadata)
  \/ \E p \in {"p1"}, id \in MatchIds : Fetch(p, id, StateOnly)
  \/ \E p \in {"p1"}, id \in MatchIds, s \in LaterStates : SetState(p, id, s, NoDeltalog)
  \/ \E p \in {"p1"}, id \in MatchIds : SetMetadata(p, id, WonMetadata)
  \/ \E p \in {"p1"} : ListMatches(p, <<>>)

SpecTime == InitNew /\ [][NextTime]_vars

(***************************************************************************)
(* SpecLabel: one store instance creates two matches under one gameName    *)
(* or none, gives them metadata with another gameName, and lists them by   *)
(* gameName.                                                               *)
(***************************************************************************)
NextLabel ==
  \/ Tick
  \/ \E p \in {"p1"} : ~db[p] /\ Connect(p)
  \/ \E p \in {"p1"}, id \in MatchIds, md \in LabelMetadatas :
       CreateMatch(p, id, FirstState, md)
  \/ \E p \in {"p1"}, id \in MatchIds : Fetch(p, id, MetadataOnly)
  \/ \E p \in {"p1"}, id \in MatchIds, md \in LabelMetadatas : SetMetadata(p, id, md)
  \/ \E p \in {"p1"}, id \in MatchIds : Wipe(p, id)
  \/ \E p \in {"p1"}, g \in {"g1", "g2"} : ListMatches(p, [gameName |-> g])

SpecLabel == InitNew /\ [][NextLabel]_vars

(***************************************************************************)
(* Properties.                                                             *)
(***************************************************************************)
\* The step is a call of op returning or throwing.  (A call that leaves the
\* whole state as it was, ret included, is a stuttering step.)
Completed(op) == ret'.op = op /\ (ret' # ret \/ store' # store)

HasState(row) == row # NoRow /\ row.state # NULL

\* The sequence number of the stored state.
StoredSeq(row) == JSONparse(row.state)._stateID

Max(a, b) == IF a >= b THEN a ELSE b

\* The object has no value for k: no such property, or undefined.
Absent(obj, k) == k \notin DOMAIN obj \/ (k \notin NumberKeys /\ obj[k] = Undefined)

\* Two objects with the same value of every property (jest's toEqual).
SameValue(a, b) ==
  \A k \in (DOMAIN a) \cup (DOMAIN b) :
    \/ Absent(a, k) /\ Absent(b, k)
    \/ k \in DOMAIN a /\ k \in DOMAIN b /\ a[k] = b[k]

\* The batch of a setState call: none when deltalog is absent.
BatchOf(deltalog) == IF deltalog.present THEN deltalog.entries ELSE <<>>

\* The log rows of a match.
RowsOf(table, id) == {r \in table : r.matchId = id}

Fields == {"state", "metadata", "initialState", "log"}
AllFields == [state |-> TRUE, metadata |-> TRUE, initialState |-> TRUE, log |-> TRUE]
DataOps == {"createMatch", "fetch", "setState", "setMetadata", "wipe", "listMatches"}

(***************************************************************************)
(* C1: on a connected store, setState on an existing match with a stored   *)
(* state whose sequence number is >= the new state's returns without error *)
(* and leaves the matches table (state, metadata, initial state,           *)
(* timestamps) and the logs table as they were, also when the numbers tie  *)
(* and a batch is given.                                                   *)
(***************************************************************************)
C1_StaleCall ==
  /\ Completed("setState")
  /\ db[ret'.p]
  /\ HasState(matches[ret'.id])
  /\ ret'.args.state._stateID <= StoredSeq(matches[ret'.id])

C1_StaleSetStateChangesNothing ==
  [][C1_StaleCall =>
       /\ ret'.result = "ok"
       /\ matches' = matches
       /\ logs' = logs
       /\ logSeq' = logSeq]_vars

\* A setState with a batch and the stored sequence number, but another
\* payload, has returned ok after the clock advanced; the row is as before.
C1_Witness ==
  /\ ret.op = "setState"
  /\ ret.result = "ok"
  /\ HasState(matches[ret.id])
  /\ ret.args.state._stateID = StoredSeq(matches[ret.id])
  /\ matches[ret.id].state # JSONstringify(ret.args.state)
  /\ BatchOf(ret.args.deltalog) # <<>>
  /\ matches[ret.id].updatedAt < clock
  /\ logs = {}

(***************************************************************************)
(* C2: while a match exists, the sequence number of its stored state never *)
(* decreases, and a setState that returns leaves it at the maximum of what *)
(* it was and the submitted number; so after any sequence of setState      *)
(* calls it is the maximum of the creation-time and the submitted numbers. *)
(***************************************************************************)
C2_SetStateKeepsTheMaximum ==
  [][\A id \in MatchIds :
       /\ (HasState(matches[id]) /\ HasState(matches'[id]))
            => StoredSeq(matches'[id]) >= StoredSeq(matches[id])
       /\ (Completed("setState") /\ ret'.id = id /\ ret'.result = "ok"
             /\ HasState(matches[id]))
            => StoredSeq(matches'[id]) =
                 Max(StoredSeq(matches[id]), ret'.args.state._stateID)]_vars

\* A lower number was submitted after a higher one had been written by
\* setState over a match created with number 1.
C2_Witness ==
  /\ ret.op = "setState"
  /\ ret.result = "ok"
  /\ HasState(matches[ret.id])
  /\ matches[ret.id].initialState # NULL
  /\ JSONparse(matches[ret.id].initialState)._stateID = 1
  /\ StoredSeq(matches[ret.id]) = 2
  /\ ret.args.state._stateID = 0

(***************************************************************************)
(* C3: under every interleaving of the setState calls of concurrent        *)
(* callers of the same file, the stored sequence number of a match never   *)
(* regresses: no call overwrites the state written by a call with a higher *)
(* sequence number.                                                        *)
(***************************************************************************)
C3_NoRegressionUnderInterleaving ==
  [][\A id \in MatchIds :
       (HasState(matches[id]) /\ HasState(matches'[id]))
         => StoredSeq(matches[id]) <= StoredSeq(matches'[id])]_vars

(***************************************************************************)
(* C4: while a setState call is under way, each step leaves the committed  *)
(* matches and logs as they were, or is the commit that writes the new     *)
(* state, the timestamp and the whole batch at once; a failure or a crash  *)
(* at any statement therefore leaves what was committed before the call.   *)
(***************************************************************************)
C4_Applied(p) ==
  /\ ret'.op = "setState"
  /\ ret'.result = "ok"
  /\ ret'.p = p
  /\ LET id == call[p].id IN
       /\ \/ matches[id] = NoRow /\ matches' = matches
          \/ /\ matches[id] # NoRow
             /\ matches' = [matches EXCEPT ![id] =
                  [@ EXCEPT !.state = JSONstringify(call[p].state),
                            !.updatedAt = call[p].now]]
       /\ LogOf(logs', id) = LogOf(logs, id) \o BatchOf(call[p].deltalog)
       /\ \A other \in MatchIds \ {id} : RowsOf(logs', other) = RowsOf(logs, other)

C4_AllOrNothing ==
  [][\A p \in Procs :
       InCall(p) => \/ matches' = matches /\ logs' = logs
                    \/ C4_Applied(p)]_vars

\* setState with a batch of two failed, or the process died, after the
\* UPDATE and the first INSERT; the match holds its old state and no log.
C4_Witness ==
  /\ ret.op = "setState"
  /\ ret.result \in {"SQLITE_ERROR", "crashed"}
  /\ ret.value.statement = 2
  /\ Len(BatchOf(ret.args.deltalog)) = 2
  /\ HasState(matches[ret.id])
  /\ StoredSeq(matches[ret.id]) < ret.args.state._stateID
  /\ logs = {}

(***************************************************************************)
(* C5: on a connected store, setState on an existing match whose stored    *)
(* state has a smaller sequence number, or which has no stored state,      *)
(* makes the stored state the new state and the log the previous log       *)
(* followed by the batch in batch order; metadata and initial state stay.  *)
(***************************************************************************)
C5_AcceptedCall ==
  /\ Completed("setState")
  /\ db[ret'.p]
  /\ matches[ret'.id] # NoRow
  /\ \/ matches[ret'.id].state = NULL
     \/ StoredSeq(matches[ret'.id]) < ret'.args.state._stateID

C5_AcceptedSetStateWritesStateAndLog ==
  [][C5_AcceptedCall =>
       LET id == ret'.id IN
       /\ ret'.result = "ok"
       /\ HasState(matches'[id])
       /\ SameValue(JSONparse(matches'[id].state), ret'.args.state)
       /\ LogOf(logs', id) = LogOf(logs, id) \o BatchOf(ret'.args.deltalog)
       /\ matches'[id].metadata = matches[id].metadata
       /\ matches'[id].initialState = matches[id].initialState]_vars

\* The second accepted setState appended its batch of two after the first
\* one's entry.
C5_Witness ==
  /\ ret.op = "setState"
  /\ ret.result = "ok"
  /\ HasState(matches[ret.id])
  /\ matches[ret.id].state = JSONstringify(ret.args.state)
  /\ Len(BatchOf(ret.args.deltalog)) = 2
  /\ Len(LogOf(logs, ret.id)) = 3
  /\ LogOf(logs, ret.id)[1].action = "e1"
  /\ LogOf(logs, ret.id)[2].action = "e2"

(***************************************************************************)
(* C6: fetch with log enabled returns exactly the entries that the         *)
(* accepted setState calls on the match appended since it was created, in  *)
(* call order and in batch order, whatever setState calls and wipes of     *)
(* another match came in between.                                          *)
(***************************************************************************)
C6_FetchReturnsTheAppendedLog ==
  [][(Completed("fetch") /\ ret'.result = "ok" /\ ret'.args.log
        /\ matches[ret'.id] # NoRow)
       => /\ "log" \in DOMAIN ret'.value
          /\ ret'.value.log = appended[ret'.id]]_vars

\* The fetched log has two entries of two calls, and the other match got a
\* log row between them.
C6_Witness ==
  /\ ret.op = "fetch"
  /\ ret.result = "ok"
  /\ "log" \in DOMAIN ret.value
  /\ Len(ret.value.log) = 2
  /\ \E r1, r2 \in RowsOf(logs, ret.id) :
       \E q \in logs : q.matchId # ret.id /\ r1.id < q.id /\ q.id < r2.id

(***************************************************************************)
(* C7: wipe of a match removes its row and every log row it owns; fetch of *)
(* an id without a row returns no state and no log, listMatches returns    *)
(* only ids that have a row, and createMatch on an id without a row        *)
(* succeeds and yields a match with an empty log.                          *)
(***************************************************************************)
C7_WipeRemovesMatchAndLog ==
  [][/\ (Completed("wipe") /\ db[ret'.p])
          => /\ ret'.result = "ok"
             /\ matches'[ret'.id] = NoRow
             /\ RowsOf(logs', ret'.id) = {}
     /\ (Completed("fetch") /\ ret'.result = "ok" /\ matches[ret'.id] = NoRow)
          => /\ "state" \notin DOMAIN ret'.value
             /\ "log" \notin DOMAIN ret'.value
     /\ (Completed("listMatches") /\ ret'.result = "ok")
          => \A i \in DOMAIN ret'.value : matches[ret'.value[i]] # NoRow
     /\ (Completed("createMatch") /\ db[ret'.p] /\ matches[ret'.id] = NoRow)
          => /\ ret'.result = "ok"
             /\ matches'[ret'.id] # NoRow
             /\ LogOf(logs', ret'.id) = <<>>]_vars

\* The match had log rows, was wiped and has been created again.
C7_Witness ==
  /\ ret.op = "createMatch"
  /\ ret.result = "ok"
  /\ ret.id = "m1"
  /\ matches["m2"] = NoRow
  /\ logSeq > 0
  /\ logs = {}

(***************************************************************************)
(* C8: on a store instance that is not connected, each of the six data     *)
(* operations fails with the not-connected error and leaves the file as    *)
(* it was.                                                                 *)
(***************************************************************************)
C8_NotConnectedFails ==
  [][\A op \in DataOps :
       (Completed(op) /\ ~db[ret'.p])
         => /\ ret'.result = "Database not connected. Call connect() first."
            /\ store' = store]_vars

\* wipe was refused on a file that holds a match.
C8_Witness ==
  /\ ret.op = "wipe"
  /\ ret.result = "Database not connected. Call connect() first."
  /\ ~db[ret.p]
  /\ matches[ret.id] # NoRow

(***************************************************************************)
(* C9: fetch of all four fields right after createMatch(id, initialState,  *)
(* metadata) returns state and initialState equal to the given initial     *)
(* state, metadata equal to the given metadata, and an empty log.          *)
(***************************************************************************)
C9_CreateThenFetchRoundTrip ==
  [][(/\ ret.op = "createMatch"
      /\ ret.result = "ok"
      /\ Completed("fetch")
      /\ ret'.result = "ok"
      /\ ret'.id = ret.id
      /\ ret'.args = AllFields)
       => LET v == ret'.value IN
          /\ DOMAIN v = Fields
          /\ v.state # NoObject
          /\ SameValue(v.state, ret.args.initialState)
          /\ v.initialState # NoObject
          /\ SameValue(v.initialState, ret.args.initialState)
          /\ v.metadata # NoObject
          /\ SameValue(v.metadata, ret.args.metadata)
          /\ v.log = <<>>]_vars

\* All four fields of a match that is as created were fetched; its
\* metadata was given with gameName undefined.
C9_Witness ==
  /\ ret.op = "fetch"
  /\ ret.result = "ok"
  /\ ret.args = AllFields
  /\ HasState(matches[ret.id])
  /\ matches[ret.id].state = matches[ret.id].initialState
  /\ matches[ret.id].createdAt = matches[ret.id].updatedAt
  /\ matches[ret.id].gameName = ""
  /\ DOMAIN ret.value = Fields
  /\ ret.value.metadata.gameover = "won"
  /\ ret.value.log = <<>>

(***************************************************************************)
(* C10: fetch(id, S) populates no field outside S and, for an existing     *)
(* match, every field of S that the row holds, with the stored value.      *)
(***************************************************************************)
C10_FetchPopulatesTheSelectedFields ==
  [][(Completed("fetch") /\ ret'.result = "ok")
       => LET S == {k \in Fields : ret'.args[k]}
              v == ret'.value
              row == matches[ret'.id]
          IN /\ DOMAIN v \subseteq S
             /\ row # NoRow =>
                  /\ \A k \in S \ {"log"} :
                       row[k] # NULL => k \in DOMAIN v /\ v[k] = JSONparse(row[k])
                  /\ "log" \in S =>
                       /\ "log" \in DOMAIN v
                       /\ Len(v.log) = Cardinality(RowsOf(logs, ret'.id))
                       /\ {v.log[i] : i \in DOMAIN v.log} =
                            {JSONparse(r.logEntry) : r \in RowsOf(logs, ret'.id)}]_vars

\* Only the metadata of an existing match with a state and a log was asked
\* for, and only the metadata came back.
C10_Witness ==
  /\ ret.op = "fetch"
  /\ ret.result = "ok"
  /\ ret.args = [state |-> FALSE, metadata |-> TRUE, initialState |-> FALSE, log |-> FALSE]
  /\ HasState(matches[ret.id])
  /\ RowsOf(logs, ret.id) # {}
  /\ DOMAIN ret.value = {"metadata"}

(***************************************************************************)
(* C11: on a connected store, fetch of an id that has no row, never        *)
(* created or wiped, returns without error a result with no field at all,  *)
(* whatever the selector: no state, no metadata, no initialState and no    *)
(* log, not even an empty one; the file is as it was.                      *)
(***************************************************************************)
C11_FetchOfMissingIdIsEmpty ==
  [][(Completed("fetch") /\ db[ret'.p] /\ matches[ret'.id] = NoRow)
       => /\ ret'.result = "ok"
          /\ DOMAIN ret'.value = {}
          /\ store' = store]_vars

\* All four fields of a match that had a log and was wiped were asked for,
\* and none came back.
C11_Witness ==
  /\ ret.op = "fetch"
  /\ ret.result = "ok"
  /\ ret.args = AllFields
  /\ matches[ret.id] = NoRow
  /\ logSeq > 0
  /\ DOMAIN ret.value = {}

(***************************************************************************)
(* C12: on a connected store, createMatch on an id that has a row fails,   *)
(* and the row (state, initial state, metadata, gameName, createdAt,       *)
(* updatedAt) and the logs are as they were.                               *)
(***************************************************************************)
C12_DuplicateCreateFails ==
  [][(Completed("createMatch") /\ db[ret'.p] /\ matches[ret'.id] # NoRow)
       => /\ ret'.result # "ok"
          /\ matches' = matches
          /\ logs' = logs]_vars

\* createMatch was refused, after the clock advanced, on a match that has a
\* log and whose state, metadata and gameName differ from those given.
C12_Witness ==
  /\ ret.op = "createMatch"
  /\ ret.result = "SQLITE_CONSTRAINT_PRIMARYKEY"
  /\ HasState(matches[ret.id])
  /\ matches[ret.id].state # JSONstringify(ret.args.initialState)
  /\ matches[ret.id].metadata # JSONstringify(ret.args.metadata)
  /\ matches[ret.id].gameName = "g1"
  /\ Get(ret.args.metadata, "gameName") = Undefined
  /\ matches[ret.id].updatedAt < clock
  /\ RowsOf(logs, ret.id) # {}

(***************************************************************************)
(* C13: on a connected store, setMetadata on an id that has a row makes    *)
(* the stored metadata the given one, whatever the stored state and        *)
(* metadata are, and leaves the state, the initial state and the logs as   *)
(* they were.                                                              *)
(***************************************************************************)
C13_SetMetadataReplacesMetadataOnly ==
  [][(Completed("setMetadata") /\ db[ret'.p] /\ matches[ret'.id] # NoRow)
       => LET id == ret'.id IN
          /\ ret'.result = "ok"
          /\ matches'[id].metadata # NULL
          /\ SameValue(JSONparse(matches'[id].metadata), ret'.args)
          /\ matches'[id].state = matches[id].state
          /\ matches'[id].initialState = matches[id].initialState
          /\ logs' = logs]_vars

\* The metadata given at creation was replaced on a match whose state has
\* the highest sequence number and which has a log.
C13_Witness ==
  /\ ret.op = "setMetadata"
  /\ ret.result = "ok"
  /\ HasState(matches[ret.id])
  /\ StoredSeq(matches[ret.id]) = MaxStateID
  /\ matches[ret.id].gameName = "g1"
  /\ matches[ret.id].metadata = JSONstringify(ret.args)
  /\ Get(ret.args, "gameover") = "won"
  /\ RowsOf(logs, ret.id) # {}

(***************************************************************************)
(* C14: on a connected store, setMetadata and wipe on an id that has no    *)
(* row return without error, make no row, and leave every row of matches   *)
(* and of logs as it was.                                                  *)
(***************************************************************************)
C14_UnknownIdMutationsAreNoOps ==
  [][\A op \in {"setMetadata", "wipe"} :
       (Completed(op) /\ db[ret'.p] /\ matches[ret'.id] = NoRow)
         => /\ ret'.result = "ok"
            /\ matches' = matches
            /\ logs' = logs]_vars

\* setMetadata returned on an id without a row while the other match has
\* a row and a log.
C14_Witness ==
  /\ ret.op = "setMetadata"
  /\ ret.result = "ok"
  /\ matches[ret.id] = NoRow
  /\ \E other \in MatchIds \ {ret.id} :
       /\ HasState(matches[other])
       /\ RowsOf(logs, other) # {}

(***************************************************************************)
(* C20: from the createMatch that made a match until its wipe, every fetch *)
(* that selects initialState returns the initialState that createMatch was *)
(* given, whatever setState, setMetadata, fetch, listMatches and connect   *)
(* calls came in between.                                                  *)
(***************************************************************************)
C20_InitialStateIsImmutable ==
  [][(/\ Completed("fetch")
      /\ ret'.result = "ok"
      /\ ret'.args.initialState
      /\ created[ret'.id] # NoValue)
       => /\ "initialState" \in DOMAIN ret'.value
          /\ ret'.value.initialState # NoObject
          /\ SameValue(ret'.value.initialState, created[ret'.id])]_vars

\* The initial state was fetched from a match whose state and metadata
\* were replaced and whose store instance connected again after creation.
C20_Witness ==
  /\ ret.op = "fetch"
  /\ ret.result = "ok"
  /\ ret.args.initialState
  /\ created[ret.id] # NoValue
  /\ created[ret.id]._stateID = 1
  /\ HasState(matches[ret.id])
  /\ StoredSeq(matches[ret.id]) = MaxStateID
  /\ matches[ret.id].metadata # JSONstringify(FirstMetadata)
  /\ matches[ret.id].createdAt = 0
  /\ handles[ret.p] = 2
  /\ ret.value.initialState._stateID = 1

(***************************************************************************)
(* listMatches: what its contract says of the filters.                     *)
(***************************************************************************)
Range(seq) == {seq[i] : i \in DOMAIN seq}

\* The row passes the gameName and time filters that are given.
Passes(row, opts) ==
  /\ row # NoRow
  /\ "gameName" \in DOMAIN opts => row.gameName = opts.gameName
  /\ "updatedBefore" \in DOMAIN opts => row.updatedAt < opts.updatedBefore
  /\ "updatedAfter" \in DOMAIN opts => row.updatedAt > opts.updatedAfter

\* The metadata of the row has a gameover field.
HasGameoverField(row) ==
  /\ row.metadata # NULL
  /\ "gameover" \in DOMAIN JSONparse(row.metadata)

\* a is b with some elements removed.
RECURSIVE IsSubsequence(_, _)
IsSubsequence(a, b) ==
  IF a = <<>> THEN TRUE
  ELSE IF b = <<>> THEN FALSE
  ELSE IF Head(a) = Head(b) THEN IsSubsequence(Tail(a), Tail(b))
  ELSE IsSubsequence(a, Tail(b))

ListedWith(keys) ==
  /\ Completed("listMatches")
  /\ ret'.result = "ok"
  /\ keys \subseteq DOMAIN ret'.args

(***************************************************************************)
(* C15: listMatches with only the gameName filter g, for every string g,   *)
(* the empty string included, returns exactly the ids of the matches whose *)
(* gameName label is g.                                                    *)
(***************************************************************************)
C15_GameNameFilterIsExact ==
  [][(ListedWith({"gameName"}) /\ DOMAIN ret'.args = {"gameName"})
       => Range(ret'.value) =
            {id \in MatchIds : /\ matches[id] # NoRow
                               /\ matches[id].gameName = ret'.args.gameName}]_vars

(***************************************************************************)
(* C16: the matches listMatches returns have updatedAt < updatedBefore and *)
(* updatedAt > updatedAfter, for each of the two that is given, 0          *)
(* included; with no other filter it returns exactly those matches, so a   *)
(* match whose updatedAt equals the bound is not returned.                 *)
(***************************************************************************)
C16_TimeFiltersAreStrict ==
  [][ListedWith({})
       => LET opts == ret'.args
              listed == Range(ret'.value)
          IN /\ "updatedBefore" \in DOMAIN opts =>
                  \A id \in listed : matches[id].updatedAt < opts.updatedBefore
             /\ "updatedAfter" \in DOMAIN opts =>
                  \A id \in listed : matches[id].updatedAt > opts.updatedAfter
             /\ DOMAIN opts \subseteq {"updatedBefore", "updatedAfter"} =>
                  listed = {id \in MatchIds : Passes(matches[id], opts)}]_vars

\* With updatedAfter = 0 and updatedBefore = 2 the match updated at 1 was
\* returned and the match updated at a bound was not.
C16_Witness ==
  /\ ret.op = "listMatches"
  /\ ret.result = "ok"
  /\ ret.args = [updatedBefore |-> 2, updatedAfter |-> 0]
  /\ Len(ret.value) = 1
  /\ matches[ret.value[1]].updatedAt = 1
  /\ \E other \in MatchIds \ {ret.value[1]} :
       /\ matches[other] # NoRow
       /\ matches[other].updatedAt \in {0, 2}

(***************************************************************************)
(* C17: listMatches with isGameover = b, alone or with the gameName and    *)
(* time filters, returns exactly the matches that pass those filters and   *)
(* whose metadata, as createMatch or setMetadata last wrote it, has the    *)
(* gameover field if b is true and has not if b is false, whatever the     *)
(* field's value.  (A gameName filter of '' is the case of C15.)           *)
(***************************************************************************)
C17_GameoverFilterIsByPresence ==
  [][(/\ ListedWith({"isGameover"})
      /\ "gameName" \in DOMAIN ret'.args => ret'.args.gameName # "")
       => Range(ret'.value) =
            {id \in MatchIds :
               /\ Passes(matches[id], ret'.args)
               /\ HasGameoverField(matches[id]) <=> ret'.args.isGameover}]_vars

\* isGameover = true with gameName and both time filters returned only
\* the match to which setMetadata gave a gameover of '', and not the other
\* match, which passes the other filters and has no gameover.
C17_Witness ==
  /\ ret.op = "listMatches"
  /\ ret.result = "ok"
  /\ DOMAIN ret.args = {"gameName", "isGameover", "updatedBefore", "updatedAfter"}
  /\ ret.args.isGameover
  /\ Len(ret.value) = 1
  /\ LET row == matches[ret.value[1]] IN
       /\ HasGameoverField(row)
       /\ JSONparse(row.metadata).gameover = ""
       /\ row.createdAt < row.updatedAt
  /\ \E other \in MatchIds \ {ret.value[1]} :
       /\ Passes(matches[other], ret.args)
       /\ ~HasGameoverField(matches[other])

(***************************************************************************)
(* C18: a match whose stored metadata is NULL counts as having no          *)
(* gameover: among the matches that pass the other filters, listMatches    *)
(* leaves it out with isGameover = true and returns it with isGameover =   *)
(* false.                                                                  *)
(***************************************************************************)
C18_NullMetadataHasNoGameover ==
  [][(/\ ListedWith({"isGameover"})
      /\ "gameName" \in DOMAIN ret'.args => ret'.args.gameName # "")
       => \A id \in MatchIds :
            (/\ Passes(matches[id], ret'.args)
             /\ matches[id].metadata = NULL)
              => (id \in Range(ret'.value) <=> ~ret'.args.isGameover)]_vars

(***************************************************************************)
(* C19: under every combination of filters the ids listMatches returns     *)
(* are distinct and in descending order of updatedAt, and with isGameover  *)
(* they are a subsequence of an answer of the query without it.            *)
(***************************************************************************)
C19_ListIsOrderedByUpdatedAtDesc ==
  [][ListedWith({})
       => LET v == ret'.value IN
          /\ \A i, j \in DOMAIN v :
               i < j => /\ v[i] # v[j]
                        /\ matches[v[i]].updatedAt >= matches[v[j]].updatedAt
          /\ \E rows \in Ordered({id \in MatchIds : Selected(matches[id], ret'.args)}) :
               IF "isGameover" \in DOMAIN ret'.args
                 THEN IsSubsequence(v, rows)
                 ELSE v = rows]_vars

\* An isGameover filter kept both matches, the later updated one first.
C19_Witness ==
  /\ ret.op = "listMatches"
  /\ ret.result = "ok"
  /\ "isGameover" \in DOMAIN ret.args
  /\ Len(ret.value) = 2
  /\ matches[ret.value[1]].updatedAt > matches[ret.value[2]].updatedAt
  /\ matches[ret.value[1]].createdAt < matches[ret.value[2]].createdAt

(***************************************************************************)
(* C21: connect on a file whose tables exist, made by this store instance  *)
(* or by another, with or without matches and logs in them, succeeds and   *)
(* leaves every row of matches and of logs as it was.                      *)
(***************************************************************************)
C21_ConnectKeepsTheData ==
  [][Completed("connect")
       => /\ ret'.result = "ok"
          /\ db'[ret'.p]
          /\ matches' = matches
          /\ logs' = logs
          /\ logSeq' = logSeq]_vars

\* An instance connected for the second time while the other instance is
\* connected and the file holds a match with a state and a log.
C21_Witness ==
  /\ ret.op = "connect"
  /\ ret.result = "ok"
  /\ handles[ret.p] = 2
  /\ \E q \in Procs \ {ret.p} : db[q]
  /\ HasState(matches["m1"])
  /\ RowsOf(logs, "m1") # {}

(***************************************************************************)
(* C22: a store instance has exactly one open handle while it is connected *)
(* and none otherwise, after any sequence of connect, close and data       *)
(* operations.                                                             *)
(***************************************************************************)
C22_OneHandleWhileConnected ==
  \A p \in Procs : handles[p] = IF db[p] THEN 1 ELSE 0

(***************************************************************************)
(* C24: in every state each row of logs has the id of a row of matches,    *)
(* also when a wipe comes between the statements of a setState; and a      *)
(* setState on an id without a row leaves the file as it was, failing on   *)
(* the foreign key when its batch is not empty and returning without       *)
(* error when the batch is absent or empty.                                *)
(***************************************************************************)
C24_LogsHaveAnOwner ==
  /\ [](\A r \in logs : matches[r.matchId] # NoRow)
  /\ [][(Completed("setState") /\ db[ret'.p] /\ matches[ret'.id] = NoRow)
         => /\ store' = store
            /\ ret'.result = IF BatchOf(ret'.args.deltalog) # <<>>
                                THEN "SQLITE_CONSTRAINT_FOREIGNKEY"
                                ELSE "ok"]_vars

\* setState failed on the foreign key at its INSERT on a match that had
\* log rows before it was wiped; no row of matches and none of logs is left.
C24_Witness ==
  /\ ret.op = "setState"
  /\ ret.result = "SQLITE_CONSTRAINT_FOREIGNKEY"
  /\ ret.value.statement = 1
  /\ matches[ret.id] = NoRow
  /\ logSeq > 0
  /\ logs = {}

(***************************************************************************)
(* C23: on one store instance the statements of a setState call follow     *)
(* one another with no step of another operation of the instance between   *)
(* them, and the call ends with the effect that the whole call has on the  *)
(* file as it was when the call began: the guard it passed still holds     *)
(* against the stored state when its writes are published.                 *)
(***************************************************************************)
C23_NextStatement(p) ==
  /\ call'[p] = [call[p] EXCEPT !.i = @ + 1]
  /\ store' = store
  /\ ret' = ret

C23_WholeCall(p) ==
  LET id == call[p].id
      updated == UpdateState(matches, id, call[p].state, call[p].now)
      inserted == InsertAll(logs, logSeq, id, Entries(p))
  IN /\ call'[p] = NoCall
     /\ ret'.op = "setState"
     /\ ret'.p = p
     /\ ret'.id = id
     /\ ret'.args = CallArgs(p)
     /\ ~IsStale(matches[id], call[p].state)
     /\ IF Entries(p) # <<>> /\ matches[id] = NoRow
          THEN /\ ret'.result = "SQLITE_CONSTRAINT_FOREIGNKEY"
               /\ store' = store
          ELSE /\ ret'.result = "ok"
               /\ matches' = updated
               /\ logs' = inserted.logs
               /\ logSeq' = inserted.logSeq

C23_CallsDoNotInterleave ==
  [][\A p \in Procs :
       InCall(p) => \/ C23_NextStatement(p)
                    \/ C23_WholeCall(p)
                    \/ clock' # clock /\ call' = call /\ store' = store /\ ret' = ret]_vars

\* A setState with a batch of two is between its two INSERTs, time has
\* passed since it began, and the file still shows the older state and no
\* log row of the batch.
C23_Witness ==
  /\ InCall("p1")
  /\ call["p1"].i = 2
  /\ Len(Entries("p1")) = 2
  /\ txn.owner = "p1"
  /\ call["p1"].now < clock
  /\ HasState(matches[call["p1"].id])
  /\ StoredSeq(matches[call["p1"].id]) < call["p1"].state._stateID
  /\ RowsOf(logs, call["p1"].id) = {}

(***************************************************************************)
(* C25: while a match exists its log only grows at the end: the log before *)
(* a step is a prefix of the log after it.  Log rows are added only by a   *)
(* setState that is not stale and has a non-empty batch, and removed only  *)
(* by the wipe of their match; createMatch, setMetadata, a stale setState, *)
(* fetch, listMatches and connect leave the logs table as it was.          *)
(***************************************************************************)
IsPrefix(a, b) == Len(a) <= Len(b) /\ SubSeq(b, 1, Len(a)) = a

C25_LogIsAppendOnly ==
  [][/\ \A id \in MatchIds :
          /\ (matches[id] # NoRow /\ matches'[id] # NoRow)
               => IsPrefix(LogOf(logs, id), LogOf(logs', id))
          /\ ~(RowsOf(logs', id) \subseteq RowsOf(logs, id))
               => /\ Completed("setState")
                  /\ ret'.id = id
                  /\ ret'.result = "ok"
                  /\ BatchOf(ret'.args.deltalog) # <<>>
                  /\ ~IsStale(matches[id], ret'.args.state)
                  /\ LogOf(logs', id) = LogOf(logs, id) \o BatchOf(ret'.args.deltalog)
          /\ ~(RowsOf(logs, id) \subseteq RowsOf(logs', id))
               => /\ Completed("wipe")
                  /\ ret'.id = id
                  /\ RowsOf(logs', id) = {}
     /\ \A op \in {"createMatch", "setMetadata", "fetch", "listMatches", "connect"} :
          Completed(op) => logs' = logs
     /\ (Completed("setState") /\ IsStale(matches[ret'.id], ret'.args.state))
          => logs' = logs]_vars

\* A second accepted setState appended an entry that differs from the
\* first one's, after the store connected again and the metadata was
\* replaced.
C25_Witness ==
  /\ ret.op = "setState"
  /\ ret.result = "ok"
  /\ HasState(matches[ret.id])
  /\ matches[ret.id].state = JSONstringify(ret.args.state)
  /\ matches[ret.id].metadata = JSONstringify(WonMetadata)
  /\ handles[ret.p] = 2
  /\ Len(LogOf(logs, ret.id)) = 2
  /\ LogOf(logs, ret.id)[1] # LogOf(logs, ret.id)[2]
  /\ <<LogOf(logs, ret.id)[2]>> = BatchOf(ret.args.deltalog)

(***************************************************************************)
(* C27: createMatch, setState, setMetadata and wipe on an id, whether they *)
(* succeed, are skipped as stale or fail, leave the row (state, initial    *)
(* state, metadata, gameName, createdAt, updatedAt) and the log rows of    *)
(* every other id as they were.                                            *)
(***************************************************************************)
C27_OtherMatchesAreUntouched ==
  [][\A op \in {"createMatch", "setState", "setMetadata", "wipe"} :
       Completed(op)
         => \A other \in MatchIds \ {ret'.id} :
              /\ matches'[other] = matches[other]
              /\ RowsOf(logs', other) = RowsOf(logs, other)]_vars

\* A match that had a log was wiped while the other match has a state and
\* a log.
C27_Witness ==
  /\ ret.op = "wipe"
  /\ ret.result = "ok"
  /\ matches[ret.id] = NoRow
  /\ logSeq > 1
  /\ \E other \in MatchIds \ {ret.id} :
       /\ HasState(matches[other])
       /\ Cardinality(RowsOf(logs, other)) = 1
       /\ logs = RowsOf(logs, other)

(***************************************************************************)
(* C26: createMatch, a setState that is not stale and setMetadata set the  *)
(* updatedAt of their match to the clock of the call, and no other         *)
(* step changes the updatedAt of an existing match: not a stale setState,  *)
(* fetch, listMatches or an operation on another match.  So listMatches()  *)
(* returns first a match whose updatedAt no other match exceeds, the one   *)
(* written last when the clock advanced between the writes.                *)
(***************************************************************************)
C26_WriteOf(id) ==
  /\ ret'.id = id
  /\ \/ Completed("setState") /\ ~IsStale(matches[id], ret'.args.state)
     \/ Completed("setMetadata")

C26_UpdatedAtIsTheLastWrite ==
  [][/\ (Completed("createMatch") /\ ret'.result = "ok")
          => /\ matches'[ret'.id].createdAt = clock
             /\ matches'[ret'.id].updatedAt = clock
     /\ \A id \in MatchIds :
          (matches[id] # NoRow /\ db[ret'.p] /\ C26_WriteOf(id))
            => /\ ret'.result = "ok"
               /\ matches'[id].updatedAt = clock
     /\ \A id \in MatchIds :
          (matches[id] # NoRow /\ matches'[id] # NoRow /\ ~C26_WriteOf(id))
            => matches'[id].updatedAt = matches[id].updatedAt
     /\ (Completed("listMatches") /\ ret'.result = "ok" /\ ret'.args = <<>>)
          => /\ Range(ret'.value) = {id \in MatchIds : matches[id] # NoRow}
             /\ \A id \in Range(ret'.value) :
                  matches[ret'.value[1]].updatedAt >= matches[id].updatedAt]_vars

\* listMatches() returned first the match that was created first and
\* written later than the other one by setState.
C26_Witness ==
  /\ ret.op = "listMatches"
  /\ ret.result = "ok"
  /\ ret.args = <<>>
  /\ Len(ret.value) = 2
  /\ LET first == matches[ret.value[1]]
         second == matches[ret.value[2]]
     IN /\ first.createdAt < second.createdAt
        /\ first.updatedAt > second.updatedAt
        /\ StoredSeq(first) > 0
        /\ first.metadata = JSONstringify(FirstMetadata)

(***************************************************************************)
(* C28: createMatch sets the gameName label of the match to the gameName   *)
(* of the given metadata, or to '' when it has none, and no step changes   *)
(* the label while the match exists.  After a setMetadata on the match,    *)
(* listMatches({gameName: g}) returns it exactly when its label is g,      *)
(* whatever gameName the new metadata has, and fetch returns the new       *)
(* metadata.                                                               *)
(***************************************************************************)
C28_AfterSetMetadata ==
  /\ ret.op = "setMetadata"
  /\ ret.result = "ok"
  /\ matches[ret.id] # NoRow

C28_LabelIsFixedAtCreation ==
  [][/\ (Completed("createMatch") /\ ret'.result = "ok")
          => matches'[ret'.id].gameName =
               IF Absent(ret'.args.metadata, "gameName")
                 THEN "" ELSE ret'.args.metadata.gameName
     /\ \A id \in MatchIds :
          (matches[id] # NoRow /\ matches'[id] # NoRow)
            => matches'[id].gameName = matches[id].gameName
     /\ (C28_AfterSetMetadata /\ Completed("listMatches") /\ ret'.result = "ok")
          => (ret.id \in Range(ret'.value)
                <=> matches[ret.id].gameName = ret'.args.gameName)
     /\ (C28_AfterSetMetadata /\ Completed("fetch") /\ ret'.result = "ok"
           /\ ret'.id = ret.id)
          => /\ "metadata" \in DOMAIN ret'.value
             /\ ret'.value.metadata # NoObject
             /\ SameValue(ret'.value.metadata, ret.args)]_vars

\* listMatches({gameName: 'g1'}) returned a match whose metadata now has
\* the gameName 'g2'.
C28_Witness ==
  /\ ret.op = "listMatches"
  /\ ret.result = "ok"
  /\ ret.args = [gameName |-> "g1"]
  /\ \E i \in DOMAIN ret.value :
       /\ matches[ret.value[i]].gameName = "g1"
       /\ matches[ret.value[i]].metadata # NULL
       /\ Get(JSONparse(matches[ret.value[i]].metadata), "gameName") = "g2"
=============================================================================
